---- MODULE Spec2Model ----
(***************************************************************************)
(* Model of nightrelcalc (src/main.go): the scenario calculator `compute`  *)
(* and its clock helpers.                                                  *)
(*                                                                         *)
(* Representation.                                                         *)
(*  - A Go string is a sequence of one-character strings, so that          *)
(*    formatting and parsing are computed character by character.          *)
(*  - A float64 number of hours is an integer count of 1/128 hour.  Every  *)
(*    such value, and its product with 60.0, is exact in float64, so       *)
(*    math.Round sees exactly the rational 60*h/128.                       *)
(*  - Go's int is 64 bits wide; all values here stay far below 2^63.       *)
(***************************************************************************)
EXTENDS Integers, Sequences, FiniteSets, TLC

VARIABLES pc, args, res, clk, clkStr, clkParsed

vars == <<pc, args, res, clk, clkStr, clkParsed>>

NULL == [none |-> TRUE]

(* ---------------- bounds of the explored inputs ---------------- *)

\* release lengths of 2h, 4h, ... 2h*MaxLenSteps are explored
MaxLenSteps == 3
\* minimum rests of 11h, 22h, ... 11h*MaxRestSteps are explored
MaxRestSteps == 3
\* absolute minutes -ClockBelow..ClockHi are formatted and parsed back
ClockBelow == 1500
ClockHi == 3000

(* ---------------- Go integer arithmetic ---------------- *)

\* Go's a / b for b > 0: truncates toward zero
GoQuo(a, b) == IF a >= 0 THEN a \div b ELSE 0 - ((0 - a) \div b)

\* Go's a % b for b > 0: sign follows the dividend
GoRem(a, b) == a - b * GoQuo(a, b)

minInt(a, b) == IF a < b THEN a ELSE b

maxInt(a, b) == IF a > b THEN a ELSE b

\* floorDiv without the correction for negative dividends
floorDiv_Truncating(a, b) ==
    IF b = 0 THEN 0 ELSE GoQuo(a, b)

floorDiv(a, b) ==
    IF b = 0 THEN 0
    ELSE LET q == GoQuo(a, b)
             r == GoRem(a, b)
         IN  IF (r # 0) /\ ((r > 0) # (b > 0)) THEN q - 1 ELSE q

mod(a, b) ==
    LET m == GoRem(a, b)
    IN  IF m < 0 THEN m + b ELSE m

\* math.Round(h * 60.0) converted to int; h counts 1/128 hours.
\* math.Round rounds half away from zero.
hoursToMin(h) ==
    IF h >= 0 THEN (2 * 60 * h + 128) \div 256
    ELSE 0 - ((2 * 60 * (0 - h) + 128) \div 256)

(* ---------------- strings ---------------- *)

Digits == <<"0", "1", "2", "3", "4", "5", "6", "7", "8", "9">>

IsDigit(c) == \E i \in 1..10 : Digits[i] = c

DigitVal(c) == (CHOOSE i \in 1..10 : Digits[i] = c) - 1

RECURSIVE NatStr(_)
\* decimal digits of n >= 0
NatStr(n) ==
    IF n < 10 THEN <<Digits[n + 1]>>
    ELSE NatStr(n \div 10) \o <<Digits[(n % 10) + 1]>>

\* fmt verb %d
FmtD(n) == IF n < 0 THEN <<"-">> \o NatStr(0 - n) ELSE NatStr(n)

\* fmt verb %02d: zero-padded to a width of two, sign included in the width
Fmt02D(n) ==
    IF n < 0 THEN FmtD(n)
    ELSE IF n < 10 THEN <<"0">> \o NatStr(n) ELSE NatStr(n)

RECURSIVE DigitsVal(_)
\* value of a non-empty sequence of digits
DigitsVal(s) ==
    IF Len(s) = 0 THEN 0
    ELSE 10 * DigitsVal(SubSeq(s, 1, Len(s) - 1)) + DigitVal(s[Len(s)])

\* strconv.Atoi: optional sign, then one or more decimal digits
Atoi(s) ==
    LET signed == Len(s) > 0 /\ s[1] \in {"+", "-"}
        body   == IF signed THEN SubSeq(s, 2, Len(s)) ELSE s
    IN  IF Len(body) = 0 \/ \E i \in 1..Len(body) : ~IsDigit(body[i])
        THEN [ok |-> FALSE, val |-> 0]
        ELSE [ok |-> TRUE,
              val |-> IF signed /\ s[1] = "-" THEN 0 - DigitsVal(body)
                      ELSE DigitsVal(body)]

RECURSIVE TrimLeft(_)
TrimLeft(s) ==
    IF Len(s) > 0 /\ s[1] = " " THEN TrimLeft(Tail(s)) ELSE s

RECURSIVE TrimRight(_)
TrimRight(s) ==
    IF Len(s) > 0 /\ s[Len(s)] = " " THEN TrimRight(SubSeq(s, 1, Len(s) - 1))
    ELSE s

\* strings.TrimSpace
TrimSpace(s) == TrimRight(TrimLeft(s))

RECURSIVE SplitColon(_)
\* strings.Split(s, ":")
SplitColon(s) ==
    IF \A i \in 1..Len(s) : s[i] # ":" THEN <<s>>
    ELSE LET k == CHOOSE i \in 1..Len(s) :
                      s[i] = ":" /\ \A j \in 1..(i - 1) : s[j] # ":"
         IN  <<SubSeq(s, 1, k - 1)>> \o SplitColon(SubSeq(s, k + 1, Len(s)))

(* ---------------- clock helpers ---------------- *)

\* parseHHMMToMin with the minute bound off by one (m >= 59 rejected)
parseHHMMToMin_Minute59(s) ==
    LET t     == TrimSpace(s)
        parts == SplitColon(t)
        bad   == [ok |-> FALSE, val |-> 0]
    IN  IF Len(parts) # 2 THEN bad
        ELSE LET h == Atoi(parts[1])
                 m == Atoi(parts[2])
             IN  IF ~h.ok \/ h.val < 0 \/ h.val > 23 THEN bad
                 ELSE IF ~m.ok \/ m.val < 0 \/ m.val >= 59 THEN bad
                 ELSE [ok |-> TRUE, val |-> h.val * 60 + m.val]

parseHHMMToMin(s) ==
    LET t     == TrimSpace(s)
        parts == SplitColon(t)
        bad   == [ok |-> FALSE, val |-> 0]
    IN  IF Len(parts) # 2 THEN bad
        ELSE LET h == Atoi(parts[1])
                 m == Atoi(parts[2])
             IN  IF ~h.ok \/ h.val < 0 \/ h.val > 23 THEN bad
                 ELSE IF ~m.ok \/ m.val < 0 \/ m.val > 59 THEN bad
                 ELSE [ok |-> TRUE, val |-> h.val * 60 + m.val]

fmtClock(min) ==
    LET days == floorDiv(min, 1440)
        tod  == mod(min, 1440)
        h    == GoQuo(tod, 60)
        m    == GoRem(tod, 60)
    IN  IF days = 0 THEN Fmt02D(h) \o <<":">> \o Fmt02D(m)
        ELSE Fmt02D(h) \o <<":">> \o Fmt02D(m)
                 \o <<" ", "(", "+">> \o FmtD(days) \o <<"d", ")">>

fmtRange(aMin, bMin) == fmtClock(aMin) \o <<" ", "-", ">", " ">> \o fmtClock(bMin)

fmtHM(min) ==
    LET a == IF min < 0 THEN 0 - min ELSE min
        h == GoQuo(a, 60)
        m == GoRem(a, 60)
    IN  FmtD(h) \o <<"h">> \o Fmt02D(m) \o <<"m">>

(* ---------------- core logic: compute ---------------- *)

\* calcNextDayStartAbs with the baseline on the day the release ends
calcNextDayStartAbs_SameDay(releaseEndAbs, normalStartOfDayMin, minRestMin) ==
    LET earliest == releaseEndAbs + minRestMin
        reEndDay == floorDiv(releaseEndAbs, 1440)
        nextDay  == reEndDay * 1440
        baseline == nextDay + normalStartOfDayMin
    IN  maxInt(baseline, earliest)

\* calcNextDayStartAbs without the normal-start baseline
calcNextDayStartAbs_RestOnly(releaseEndAbs, normalStartOfDayMin, minRestMin) ==
    releaseEndAbs + minRestMin

\* Next day: start = max(next day normal-start, releaseEnd+minRest)
calcNextDayStartAbs(releaseEndAbs, normalStartOfDayMin, minRestMin) ==
    LET earliest == releaseEndAbs + minRestMin
        reEndDay == floorDiv(releaseEndAbs, 1440)
        nextDay  == (reEndDay + 1) * 1440
        baseline == nextDay + normalStartOfDayMin
    IN  maxInt(baseline, earliest)

\* fullDayOf taking an override of 0 as provided
fullDayOf_ZeroOverride(fullH, normalLenMin) ==
    IF fullH >= 0 THEN hoursToMin(fullH) ELSE normalLenMin

\* Full day: derive from normal day unless explicitly provided and > 0
fullDayOf(fullH, normalLenMin) ==
    IF fullH > 0 THEN hoursToMin(fullH) ELSE normalLenMin

\* The locals of one scenario: workStart, workEnd, the release minutes
\* handed to fmtHM as ReleaseIncluded (inc) and the overtime minutes (ot).

\* scenarioA including only the minutes the cap requires
scenarioA_RequiredOnly(rsMin, releaseLenMin, fullDayMin, maxOvertimeMin) ==
    LET requiredIncluded == maxInt(0, releaseLenMin - maxOvertimeMin)
        inc == minInt(fullDayMin, requiredIncluded)
        pre == fullDayMin - inc
    IN  [workStart |-> rsMin - pre,
         workEnd   |-> rsMin + inc,
         inc       |-> inc,
         ot        |-> maxInt(releaseLenMin - inc, 0)]

\* scenarioA without the outer clamp of inc to the full day
scenarioA_NoOuterClamp(rsMin, releaseLenMin, fullDayMin, maxOvertimeMin) ==
    LET requiredIncluded == maxInt(0, releaseLenMin - maxOvertimeMin)
        inc == maxInt(requiredIncluded, minInt(releaseLenMin, fullDayMin))
        pre == fullDayMin - inc
    IN  [workStart |-> rsMin - pre,
         workEnd   |-> rsMin + inc,
         inc       |-> inc,
         ot        |-> maxInt(releaseLenMin - inc, 0)]

\* 1) Full day (release included as much as possible)
scenarioA(rsMin, releaseLenMin, fullDayMin, maxOvertimeMin) ==
    LET requiredIncluded == maxInt(0, releaseLenMin - maxOvertimeMin)
        inc == minInt(fullDayMin,
                      maxInt(requiredIncluded, minInt(releaseLenMin, fullDayMin)))
        pre == fullDayMin - inc
    IN  [workStart |-> rsMin - pre,
         workEnd   |-> rsMin + inc,
         inc       |-> inc,
         ot        |-> maxInt(releaseLenMin - inc, 0)]

\* scenarioB whose cap moves workEnd but leaves workStart where it was
scenarioB_StartNotShifted(rsMin, releaseLenMin, fullDayMin, maxOvertimeMin) ==
    LET reEndAbs == rsMin + releaseLenMin
    IN  IF releaseLenMin > maxOvertimeMin
        THEN [workStart |-> rsMin - fullDayMin,
              workEnd   |-> reEndAbs - maxOvertimeMin,
              inc       |-> 0,
              ot        |-> maxOvertimeMin]
        ELSE [workStart |-> rsMin - fullDayMin,
              workEnd   |-> rsMin,
              inc       |-> 0,
              ot        |-> releaseLenMin]

\* scenarioB whose cap ends work maxOvertime after the release start
scenarioB_ShiftByCap(rsMin, releaseLenMin, fullDayMin, maxOvertimeMin) ==
    IF releaseLenMin > maxOvertimeMin
    THEN [workStart |-> (rsMin + maxOvertimeMin) - fullDayMin,
          workEnd   |-> rsMin + maxOvertimeMin,
          inc       |-> 0,
          ot        |-> maxOvertimeMin]
    ELSE [workStart |-> rsMin - fullDayMin,
          workEnd   |-> rsMin,
          inc       |-> 0,
          ot        |-> releaseLenMin]

\* 2) Full day + release (all overtime), overtime capped at the maximum
scenarioB(rsMin, releaseLenMin, fullDayMin, maxOvertimeMin) ==
    LET reEndAbs == rsMin + releaseLenMin
    IN  IF releaseLenMin > maxOvertimeMin
        THEN [workStart |-> (reEndAbs - maxOvertimeMin) - fullDayMin,
              workEnd   |-> reEndAbs - maxOvertimeMin,
              inc       |-> 0,
              ot        |-> maxOvertimeMin]
        ELSE [workStart |-> rsMin - fullDayMin,
              workEnd   |-> rsMin,
              inc       |-> 0,
              ot        |-> releaseLenMin]

\* scenarioC without the re-derivation that caps the overtime
scenarioC_NoCap(rsMin, releaseLenMin, fullDayMin, maxOvertimeMin, combineH) ==
    LET x == minInt(minInt(hoursToMin(combineH), releaseLenMin), fullDayMin)
    IN  [workStart |-> rsMin - (fullDayMin - x),
         workEnd   |-> rsMin + x,
         inc       |-> x,
         ot        |-> releaseLenMin - x]

\* scenarioC without the clamp of x to the release length
scenarioC_NoClamp(rsMin, releaseLenMin, fullDayMin, maxOvertimeMin, combineH) ==
    LET x0 == minInt(hoursToMin(combineH), fullDayMin)
        x  == IF releaseLenMin - x0 > maxOvertimeMin
              THEN minInt(maxInt(releaseLenMin - maxOvertimeMin, 0), fullDayMin)
              ELSE x0
    IN  [workStart |-> rsMin - (fullDayMin - x),
         workEnd   |-> rsMin + x,
         inc       |-> x,
         ot        |-> releaseLenMin - x]

\* scenarioC whose re-derived x is not clamped to the full day
scenarioC_RecomputeUnclamped(rsMin, releaseLenMin, fullDayMin, maxOvertimeMin, combineH) ==
    LET x0 == minInt(minInt(hoursToMin(combineH), releaseLenMin), fullDayMin)
        x  == IF releaseLenMin - x0 > maxOvertimeMin
              THEN maxInt(releaseLenMin - maxOvertimeMin, 0)
              ELSE x0
    IN  [workStart |-> rsMin - (fullDayMin - x),
         workEnd   |-> rsMin + x,
         inc       |-> x,
         ot        |-> releaseLenMin - x]

\* 3) Full day + combine + rest (only if combine set)
scenarioC(rsMin, releaseLenMin, fullDayMin, maxOvertimeMin, combineH) ==
    LET x0 == minInt(minInt(hoursToMin(combineH), releaseLenMin), fullDayMin)
        x  == IF releaseLenMin - x0 > maxOvertimeMin
              THEN minInt(maxInt(releaseLenMin - maxOvertimeMin, 0), fullDayMin)
              ELSE x0
    IN  [workStart |-> rsMin - (fullDayMin - x),
         workEnd   |-> rsMin + x,
         inc       |-> x,
         ot        |-> releaseLenMin - x]

TitleA == "Full day (release included) - No Overtime"
TitleB == "Full day + release (Overtime)"

\* the Scenario struct built from a scenario's locals
mkScenario(title, sc, reEndAbs, releaseWindow, nextDayHours) ==
    [Title           |-> title,
     WorkHours       |-> fmtRange(sc.workStart, sc.workEnd),
     ReleaseWindow   |-> releaseWindow,
     TotalWork       |-> fmtRange(sc.workStart, reEndAbs),
     ReleaseIncluded |-> fmtHM(sc.inc),
     Overtime        |-> fmtHM(sc.ot),
     NextDayHours    |-> nextDayHours]

\* return nil, err
Fail(msg) == [err |-> msg, result |-> NULL, locals |-> NULL]

\* the scenario part of compute, reached once every check has passed
build(rsMin, lengthH, combineH, fullH, nsMin, neMin, minRestMin, maxOvertimeMin) ==
    LET normalLenMin  == neMin - nsMin
        releaseLenMin == hoursToMin(lengthH)
        fullDayMin    == fullDayOf(fullH, normalLenMin)
        reEndAbs      == rsMin + releaseLenMin
        releaseWindow == fmtRange(rsMin, reEndAbs)
        nextStart     == calcNextDayStartAbs(reEndAbs, nsMin, minRestMin)
        nextEnd       == nextStart + normalLenMin
        nextDayHours  == fmtRange(nextStart, nextEnd)
        scA == scenarioA(rsMin, releaseLenMin, fullDayMin, maxOvertimeMin)
        scB == scenarioB(rsMin, releaseLenMin, fullDayMin, maxOvertimeMin)
        scC == scenarioC(rsMin, releaseLenMin, fullDayMin, maxOvertimeMin, combineH)
        \* the title of the third scenario prints combineH and lengthH-combineH
        titleC == <<"Full day + ", combineH, lengthH - combineH>>
        scs == IF combineH >= 0 THEN <<scA, scB, scC>> ELSE <<scA, scB>>
        titles == <<TitleA, TitleB, titleC>>
    IN  [err    |-> "nil",
         result |->
            [ReleaseStart |-> fmtClock(rsMin),
             ReleaseEnd   |-> fmtClock(reEndAbs),
             ReleaseLen   |-> fmtHM(releaseLenMin),
             FullDay      |-> fmtHM(fullDayMin),
             NormalStart  |-> fmtClock(nsMin),
             NormalEnd    |-> fmtClock(neMin),
             NormalLen    |-> fmtHM(normalLenMin),
             MinRest      |-> fmtHM(minRestMin),
             MaxOvertime  |-> fmtHM(maxOvertimeMin),
             Scenarios    |-> [i \in 1..Len(scs) |->
                                 mkScenario(titles[i], scs[i], reEndAbs,
                                            releaseWindow, nextDayHours)]],
         locals |->
            [rsMin          |-> rsMin,
             reEndAbs       |-> reEndAbs,
             releaseLenMin  |-> releaseLenMin,
             nsMin          |-> nsMin,
             neMin          |-> neMin,
             normalLenMin   |-> normalLenMin,
             fullDayMin     |-> fullDayMin,
             minRestMin     |-> minRestMin,
             maxOvertimeMin |-> maxOvertimeMin,
             nextStart      |-> nextStart,
             nextEnd        |-> nextEnd,
             sc             |-> scs]]

\* the normal-day check accepting an empty normal day
normalDayInvalid_Strict(nsMin, neMin) == neMin - nsMin < 0

\* normalLenMin <= 0
normalDayInvalid(nsMin, neMin) == neMin - nsMin <= 0

\* lengthH <= 0, tested on the hours value
lengthInvalid(lengthH) == lengthH <= 0

\* compute testing the minimum rest before the normal day
compute_RestFirst(startStr, lengthH, combineH, fullH, normalStartStr, normalEndStr, minRestH, maxOvertimeH) ==
    LET rs == parseHHMMToMin(startStr)
        ns == parseHHMMToMin(normalStartStr)
        ne == parseHHMMToMin(normalEndStr)
        minRestMin     == hoursToMin(minRestH)
        maxOvertimeMin == hoursToMin(maxOvertimeH)
    IN  IF ~rs.ok THEN Fail("invalid time, expected HH:MM")
        ELSE IF lengthInvalid(lengthH) THEN Fail("length must be > 0")
        ELSE IF minRestMin <= 0 THEN Fail("min rest must be > 0")
        ELSE IF ~ns.ok THEN Fail("invalid --normal-start")
        ELSE IF ~ne.ok THEN Fail("invalid --normal-end")
        ELSE IF normalDayInvalid(ns.val, ne.val)
             THEN Fail("normal day must be within same day and end after start")
        ELSE IF maxOvertimeMin < 0 THEN Fail("max overtime must be >= 0")
        ELSE build(rs.val, lengthH, combineH, fullH, ns.val, ne.val,
                   minRestMin, maxOvertimeMin)

\* The error texts stand for the code's messages; the quoted input that
\* "invalid time %q, expected HH:MM" prints is left out.
compute(startStr, lengthH, combineH, fullH, normalStartStr, normalEndStr, minRestH, maxOvertimeH) ==
    LET rs == parseHHMMToMin(startStr)
        ns == parseHHMMToMin(normalStartStr)
        ne == parseHHMMToMin(normalEndStr)
        minRestMin     == hoursToMin(minRestH)
        maxOvertimeMin == hoursToMin(maxOvertimeH)
    IN  IF ~rs.ok THEN Fail("invalid time, expected HH:MM")
        ELSE IF lengthInvalid(lengthH) THEN Fail("length must be > 0")
        ELSE IF ~ns.ok THEN Fail("invalid --normal-start")
        ELSE IF ~ne.ok THEN Fail("invalid --normal-end")
        ELSE IF normalDayInvalid(ns.val, ne.val)
             THEN Fail("normal day must be within same day and end after start")
        ELSE IF minRestMin <= 0 THEN Fail("min rest must be > 0")
        ELSE IF maxOvertimeMin < 0 THEN Fail("max overtime must be >= 0")
        ELSE build(rs.val, lengthH, combineH, fullH, ns.val, ne.val,
                   minRestMin, maxOvertimeMin)

(* ---------------- inputs ---------------- *)

StartInputs ==
    { <<"1", "8", ":", "3", "0">>,
      <<"2", "0", ":", "0", "0">>,
      <<"2", "3", ":", "3", "0">>,
      <<" ", "1", ":", "0", "5", " ">>,
      <<"2", "4", ":", "0", "0">>,
      <<"1", "8", "3", "0">> }

NormalStartInputs ==
    { <<"0", "9", ":", "0", "0">>,
      <<"1", "7", ":", "0", "0">>,
      <<"9", "h">> }

NormalEndInputs ==
    { <<"1", "7", ":", "3", "0">>,
      <<"1", "7", ":", "0", "0">>,
      <<"0", "9", ":", "0", "0">>,
      <<"1", "7", ":", "6", "0">> }

\* hours in units of 1/128 hour: -0.5h, 0, 1/128h, 1/8h, 5h and 2h steps
LengthInputs == {0 - 64, 0, 1, 16, 640} \cup {256 * k : k \in 1..MaxLenSteps}

\* -1 (the flag's "unset" default), 0, 2h, 10h
CombineInputs == {0 - 128, 0, 256, 1280}

\* -1h, 0 (derive from the normal day), 1/128h, 3h
FullInputs == {0 - 128, 0, 1, 384}

\* 0, 1/128h and 11h steps
MinRestInputs == {0, 1} \cup {1408 * k : k \in 1..MaxRestSteps}

\* -1h, -1/128h, 0, 1h, 4h
MaxOvertimeInputs == {0 - 128, 0 - 1, 0, 128, 512}

ArgSet ==
    [startStr : StartInputs, lengthH : LengthInputs, combineH : CombineInputs,
     fullH : FullInputs, normalStartStr : NormalStartInputs,
     normalEndStr : NormalEndInputs, minRestH : MinRestInputs,
     maxOvertimeH : MaxOvertimeInputs]

(* ---------------- the calculator as a state machine ---------------- *)

Init ==
    /\ pc = "call"
    /\ args \in ArgSet
    /\ res = NULL
    /\ clk = 0
    /\ clkStr = <<>>
    /\ clkParsed = NULL

\* main's RunE: one call of compute on the flag values
Compute ==
    /\ pc = "call"
    /\ res' = compute(args.startStr, args.lengthH, args.combineH, args.fullH,
                      args.normalStartStr, args.normalEndStr, args.minRestH,
                      args.maxOvertimeH)
    /\ pc' = "done"
    /\ UNCHANGED <<args, clk, clkStr, clkParsed>>

Next == Compute

Spec == Init /\ [][Next]_vars

(* ---------------- formatting and parsing a clock value ---------------- *)

InitClock ==
    /\ pc = "format"
    /\ args = NULL
    /\ res = NULL
    /\ clk \in (0 - ClockBelow)..ClockHi
    /\ clkStr = <<>>
    /\ clkParsed = NULL

Format ==
    /\ pc = "format"
    /\ clkStr' = fmtClock(clk)
    /\ pc' = "parse"
    /\ UNCHANGED <<args, res, clk, clkParsed>>

Parse ==
    /\ pc = "parse"
    /\ clkParsed' = parseHHMMToMin(clkStr)
    /\ pc' = "parsed"
    /\ UNCHANGED <<args, res, clk, clkStr>>

NextClock == Format \/ Parse

SpecClock == InitClock /\ [][NextClock]_vars

(* ---------------- the web submission route /calc ---------------- *)

\* strings.ReplaceAll(s, ",", ".")
ReplaceComma(s) == [i \in 1..Len(s) |-> IF s[i] = "," THEN "." ELSE s[i]]

RECURSIVE Pow10(_)
Pow10(k) == IF k = 0 THEN 1 ELSE 10 * Pow10(k - 1)

\* parseFloat: TrimSpace, "," read as ".", then strconv.ParseFloat on plain
\* decimal notation (optional sign, digits, at most one point, at least one
\* digit); the value counts 1/128 hours.  Exponents, hexadecimal floats,
\* "inf" and "nan" are not among the explored inputs.
parseFloat(s) ==
    LET t      == ReplaceComma(TrimSpace(s))
        signed == Len(t) > 0 /\ t[1] \in {"+", "-"}
        body   == IF signed THEN SubSeq(t, 2, Len(t)) ELSE t
        dots   == {i \in 1..Len(body) : body[i] = "."}
        k      == IF dots = {} THEN Len(body) + 1 ELSE CHOOSE i \in dots : TRUE
        ip     == SubSeq(body, 1, k - 1)
        fp     == SubSeq(body, k + 1, Len(body))
        mag    == DigitsVal(ip) * 128 + (DigitsVal(fp) * 128) \div Pow10(Len(fp))
    IN  IF \/ Cardinality(dots) > 1
           \/ Len(ip) + Len(fp) = 0
           \/ \E i \in 1..Len(body) : ~(i \in dots \/ IsDigit(body[i]))
        THEN [ok |-> FALSE, val |-> 0]
        ELSE [ok |-> TRUE,
              val |-> IF signed /\ t[1] = "-" THEN 0 - mag ELSE mag]

webDefaultStart == <<"1", "8", ":", "3", "0">>
webDefaultLength == <<"4">>
webDefaultNormalStart == <<"0", "9", ":", "0", "0">>
webDefaultNormalEnd == <<"1", "7", ":", "3", "0">>
webDefaultMinRest == <<"1", "1">>
webDefaultMaxOvertime == <<"4">>

RECURSIVE QueryEscape(_)
\* url.QueryEscape on the characters of the explored form values: digits,
\* letters, "." and "-" are kept, a space becomes "+", and ":", "," and
\* "+" are percent-encoded
QueryEscape(s) ==
    IF Len(s) = 0 THEN <<>>
    ELSE LET c == s[1]
             e == IF IsDigit(c) \/ c \in {".", "-", "a", "b", "c"} THEN <<c>>
                  ELSE IF c = " " THEN <<"+">>
                  ELSE IF c = ":" THEN <<"%", "3", "A">>
                  ELSE IF c = "," THEN <<"%", "2", "C">>
                  ELSE <<"%", "2", "B">>
         IN  e \o QueryEscape(Tail(s))

\* url.Values.Encode: key=value pairs joined by "&", sorted by key; v maps a
\* key to its value, and to <<>> when the key was never Set.  A key is
\* written as one fragment of the string.
Encode(v) ==
    LET keys == <<"combine", "length", "max_overtime", "min_rest",
                  "normal_end", "normal_start", "start">>
        F[i \in 0..7] ==
            IF i = 0 THEN <<>>
            ELSE IF ~v[keys[i]].set THEN F[i - 1]
            ELSE F[i - 1] \o (IF F[i - 1] = <<>> THEN <<>> ELSE <<"&">>)
                     \o <<keys[i], "=">> \o QueryEscape(v[keys[i]].val)
    IN  F[7]

\* buildCalcURL returns "/?start=...&length=..." and only adds other params
\* when not default.
buildCalcURL(start, length, combine, normalStart, normalEnd, minRest, maxOvertime) ==
    <<"/?">> \o Encode(
        [start        |-> [set |-> TRUE, val |-> start],
         length       |-> [set |-> TRUE, val |-> length],
         combine      |-> [set |-> combine # <<>>, val |-> combine],
         normal_start |-> [set |-> normalStart # <<>> /\ normalStart # webDefaultNormalStart,
                           val |-> normalStart],
         normal_end   |-> [set |-> normalEnd # <<>> /\ normalEnd # webDefaultNormalEnd,
                           val |-> normalEnd],
         min_rest     |-> [set |-> minRest # <<>> /\ minRest # webDefaultMinRest,
                           val |-> minRest],
         max_overtime |-> [set |-> maxOvertime # <<>> /\ maxOvertime # webDefaultMaxOvertime,
                           val |-> maxOvertime]])

\* the form re-rendered with an inline error
Rendered(msg) == [status |-> 200, Error |-> msg, Location |-> <<>>]

\* http.Redirect(w, r, redir, http.StatusFound)
Redirect(redir) == [status |-> 302, Error |-> "", Location |-> redir]

\* the handler of /calc
calcHandler(form) ==
    LET start          == TrimSpace(form.start)
        lengthStr      == TrimSpace(form.length)
        combineStr     == TrimSpace(form.combine)
        normalStart0   == TrimSpace(form.normal_start)
        normalEnd0     == TrimSpace(form.normal_end)
        minRestStr0    == TrimSpace(form.min_rest)
        maxOvertimeStr0 == TrimSpace(form.max_overtime)
        normalEnd      == IF normalEnd0 = <<>> THEN webDefaultNormalEnd ELSE normalEnd0
        length         == parseFloat(lengthStr)
        normalStart    == IF normalStart0 = <<>> THEN webDefaultNormalStart ELSE normalStart0
        minRestStr     == IF minRestStr0 = <<>> THEN webDefaultMinRest ELSE minRestStr0
        maxOvertimeStr == IF maxOvertimeStr0 = <<>> THEN webDefaultMaxOvertime
                          ELSE maxOvertimeStr0
        minRest        == parseFloat(minRestStr)
        maxOvertime    == parseFloat(maxOvertimeStr)
        combine        == parseFloat(combineStr)
        combineH       == IF combineStr # <<>> THEN combine.val ELSE 0 - 128
        r              == compute(start, length.val, combineH, 0, normalStart,
                                  normalEnd, minRest.val, maxOvertime.val)
    IN  IF start = <<>> THEN Rendered("release start is required (HH:MM)")
        ELSE IF ~length.ok \/ length.val <= 0
             THEN Rendered("release length must be > 0 (hours, e.g. 4)")
        ELSE IF ~minRest.ok \/ minRest.val <= 0
             THEN Rendered("min rest must be > 0 (hours, default 11)")
        ELSE IF ~maxOvertime.ok \/ maxOvertime.val < 0
             THEN Rendered("max overtime must be >= 0 (hours, default 4)")
        ELSE IF combineStr # <<>> /\ (~combine.ok \/ combine.val < 0)
             THEN Rendered("combine must be >= 0 (hours) or empty")
        ELSE IF r.err # "nil" THEN Rendered(r.err)
        ELSE Redirect(buildCalcURL(start, lengthStr, combineStr, normalStart,
                                   normalEnd, minRestStr, maxOvertimeStr))

FormStartInputs ==
    { <<>>, <<"1", "8", ":", "3", "0">>, <<" ", "1", "8", ":", "3", "0">>,
      <<"2", "0", ":", "0", "0">>, <<"2", "5", ":", "0", "0">> }

FormLengthInputs ==
    { <<>>, <<"4">>, <<"4", " ">>, <<"4", ".", "0">>, <<"2", ",", "5">>,
      <<"0">>, <<"a", "b", "c">> }

FormCombineInputs == { <<>>, <<"2">>, <<"-", "1">> }

FormNormalStartInputs ==
    { <<>>, <<"0", "9", ":", "0", "0">>, <<"0", "8", ":", "0", "0">> }

FormNormalEndInputs ==
    { <<>>, <<"1", "7", ":", "3", "0">>, <<"0", "8", ":", "0", "0">> }

FormMinRestInputs == { <<>>, <<"1", "1">>, <<"1", "2">>, <<"0">> }

FormMaxOvertimeInputs == { <<>>, <<"4">>, <<"2", ",", "5">>, <<"-", "1">> }

FormSet ==
    [start : FormStartInputs, length : FormLengthInputs,
     combine : FormCombineInputs, normal_start : FormNormalStartInputs,
     normal_end : FormNormalEndInputs, min_rest : FormMinRestInputs,
     max_overtime : FormMaxOvertimeInputs]

\* a request to /calc has arrived with its form values
InitWeb ==
    /\ pc = "post"
    /\ args \in FormSet
    /\ res = NULL
    /\ clk = 0
    /\ clkStr = <<>>
    /\ clkParsed = NULL

Calc ==
    /\ pc = "post"
    /\ res' = calcHandler(args)
    /\ pc' = "responded"
    /\ UNCHANGED <<args, clk, clkStr, clkParsed>>

NextWeb == Calc

SpecWeb == InitWeb /\ [][NextWeb]_vars

(* ---------------- properties ---------------- *)

Done == pc = "done"

\* compute returned a result and a nil error
Ok == pc = "done" /\ res.err = "nil"

\* str of a time of day, as a literal
Str5(a, b, c, d) == <<a, b, ":", c, d>>

\* C1: in every emitted scenario, when releaseLengthMinutes -
\* maxOvertimeMinutes <= fullDayMinutes the overtime minutes are at most
\* maxOvertimeMinutes.
C1_OvertimeCapped ==
    Ok => \A i \in 1..Len(res.locals.sc) :
            (hoursToMin(args.lengthH) - hoursToMin(args.maxOvertimeH)
                 <= res.locals.fullDayMin)
            => /\ res.locals.sc[i].ot <= hoursToMin(args.maxOvertimeH)
               /\ res.result.Scenarios[i].Overtime = fmtHM(res.locals.sc[i].ot)

\* the release is longer than the cap, all three scenarios are emitted, and
\* scenarios B and C both had to cap
C1_Witness ==
    /\ Ok
    /\ Len(res.locals.sc) = 3
    /\ res.locals.releaseLenMin - res.locals.maxOvertimeMin <= res.locals.fullDayMin
    /\ res.locals.releaseLenMin > res.locals.maxOvertimeMin
    /\ res.locals.sc[2].ot = res.locals.maxOvertimeMin
    /\ res.locals.sc[3].ot = res.locals.maxOvertimeMin
    /\ res.locals.sc[3].inc > hoursToMin(args.combineH)

\* C2: every scenario's overtime minutes satisfy
\* 0 <= overtime <= max(maxOvertimeMinutes, releaseLengthMinutes).
C2_OvertimeRange ==
    Ok => \A i \in 1..Len(res.locals.sc) :
            /\ res.locals.sc[i].ot >= 0
            /\ \/ res.locals.sc[i].ot <= hoursToMin(args.maxOvertimeH)
               \/ res.locals.sc[i].ot <= hoursToMin(args.lengthH)

\* a scenario whose overtime exceeds the cap because the full day is too
\* short to absorb the rest of the release
C2_Witness ==
    /\ Ok
    /\ Len(res.locals.sc) = 3
    /\ \E i \in 1..3 :
          /\ res.locals.sc[i].ot > res.locals.maxOvertimeMin
          /\ res.locals.sc[i].ot <= res.locals.releaseLenMin

\* C3: scenario B: if releaseLengthMinutes <= maxOvertimeMinutes then
\* workEnd = releaseStart and overtime = releaseLengthMinutes, otherwise
\* releaseEnd - workEnd = maxOvertimeMinutes and overtime =
\* maxOvertimeMinutes; in both cases workStart = workEnd - fullDayMinutes.
C3_ScenarioB ==
    Ok => LET b   == res.locals.sc[2]
              rs  == parseHHMMToMin(args.startStr).val
              rel == hoursToMin(args.lengthH)
              mot == hoursToMin(args.maxOvertimeH)
          IN  /\ (rel <= mot) => (b.workEnd = rs /\ b.ot = rel)
              /\ (rel > mot) => ((rs + rel) - b.workEnd = mot /\ b.ot = mot)
              /\ b.workStart = b.workEnd - res.locals.fullDayMin
              /\ res.result.Scenarios[2].WorkHours = fmtRange(b.workStart, b.workEnd)

\* scenario B with the cap shift applied: work ends after the release starts
C3_Witness ==
    /\ Ok
    /\ res.locals.releaseLenMin > res.locals.maxOvertimeMin
    /\ res.locals.maxOvertimeMin > 0
    /\ res.locals.sc[2].workEnd > res.locals.rsMin
    /\ res.locals.sc[2].ot = res.locals.maxOvertimeMin

\* C4: the next-day start is the larger of releaseEnd + minRestMinutes and
\* (floor(releaseEnd/1440)+1)*1440 + normalStart, hence at least both, and
\* the next-day end is the next-day start plus the normal-day length.
C4_NextDayStart ==
    Ok => LET reEnd    == parseHHMMToMin(args.startStr).val + hoursToMin(args.lengthH)
              ns       == parseHHMMToMin(args.normalStartStr).val
              ne       == parseHHMMToMin(args.normalEndStr).val
              byRest   == reEnd + hoursToMin(args.minRestH)
              baseline == ((reEnd \div 1440) + 1) * 1440 + ns
          IN  /\ res.locals.nextStart >= byRest
              /\ res.locals.nextStart >= baseline
              /\ res.locals.nextStart \in {byRest, baseline}
              /\ res.locals.nextEnd = res.locals.nextStart + (ne - ns)
              /\ \A i \in 1..Len(res.result.Scenarios) :
                    res.result.Scenarios[i].NextDayHours
                        = fmtRange(res.locals.nextStart, res.locals.nextEnd)

\* the release ends after midnight and the normal start of the day after
\* that is later than the end of the rest
C4_Witness ==
    /\ Ok
    /\ res.locals.reEndAbs >= 1440
    /\ res.locals.nextStart = 2 * 1440 + res.locals.nsMin
    /\ res.locals.nextStart > res.locals.reEndAbs + res.locals.minRestMin

\* C5 as stated: the next-day start never falls before the normal start of
\* the calendar day it lands on, for every release end and minimum rest.
C5_Original ==
    Ok => res.locals.nextStart
             >= (res.locals.nextStart \div 1440) * 1440
                    + parseHHMMToMin(args.normalStartStr).val

\* C5 (amended): when releaseEnd + minRest falls no later than the calendar
\* day after the one the release ends on, the next-day start is not before
\* the normal start of the calendar day it lands on.
C5_NextStartAfterNormalStart ==
    Ok => LET reEnd  == parseHHMMToMin(args.startStr).val + hoursToMin(args.lengthH)
              byRest == reEnd + hoursToMin(args.minRestH)
          IN  (byRest \div 1440 <= (reEnd \div 1440) + 1)
              => res.locals.nextStart
                    >= (res.locals.nextStart \div 1440) * 1440
                           + parseHHMMToMin(args.normalStartStr).val

\* the rest ends on the day after the release, before that day's normal
\* start, and the start is moved up to the normal start
C5_Witness ==
    /\ Ok
    /\ LET byRest == res.locals.reEndAbs + res.locals.minRestMin
       IN  /\ byRest \div 1440 = (res.locals.reEndAbs \div 1440) + 1
           /\ byRest % 1440 < res.locals.nsMin
           /\ res.locals.nextStart > byRest
           /\ res.locals.nextStart % 1440 = res.locals.nsMin

\* C6: compute returns an error and no result whenever normalEnd <=
\* normalStart as clock minutes of the same day.
C6_NormalDayRejected ==
    Done => LET ns == parseHHMMToMin(args.normalStartStr)
                ne == parseHHMMToMin(args.normalEndStr)
            IN  (ns.ok /\ ne.ok /\ ne.val <= ns.val)
                => (res.err # "nil" /\ res.result = NULL)

\* every other input is valid, normalEnd = normalStart, and the normal-day
\* error is the one returned
C6_Witness ==
    /\ Done
    /\ parseHHMMToMin(args.startStr).ok
    /\ args.lengthH > 0
    /\ args.normalStartStr = Str5("1", "7", "0", "0")
    /\ args.normalEndStr = Str5("1", "7", "0", "0")
    /\ hoursToMin(args.minRestH) > 0
    /\ hoursToMin(args.maxOvertimeH) >= 0
    /\ res.err = "normal day must be within same day and end after start"
    /\ res.result = NULL

\* C7 as stated: whenever compute returns a result, release length minutes
\* > 0, minimum rest minutes > 0, maximum overtime minutes >= 0 and
\* normal-day length > 0.
C7_Claim ==
    Ok => /\ res.locals.releaseLenMin > 0
          /\ res.locals.minRestMin > 0
          /\ res.locals.maxOvertimeMin >= 0
          /\ res.locals.normalLenMin > 0

\* C8: the full-day length used by all scenarios is the override rounded to
\* minutes when the override is > 0 and normalEnd - normalStart otherwise;
\* the next-day window length is always the normal-day length.
C8_FullDayUsed ==
    Ok => LET ns  == parseHHMMToMin(args.normalStartStr).val
              ne  == parseHHMMToMin(args.normalEndStr).val
              exp == IF args.fullH > 0 THEN hoursToMin(args.fullH) ELSE ne - ns
          IN  /\ res.result.FullDay = fmtHM(exp)
              /\ \A i \in 1..Len(res.locals.sc) :
                    res.locals.sc[i].workEnd - res.locals.sc[i].workStart = exp
              /\ res.locals.nextEnd - res.locals.nextStart = ne - ns

\* an override of 3h is in force and differs from the normal-day length
C8_Witness ==
    /\ Ok
    /\ args.fullH > 0
    /\ res.locals.fullDayMin = 180
    /\ res.locals.normalLenMin = 510
    /\ res.locals.nextEnd - res.locals.nextStart = 510

\* start=18:30, length=4, normalStart=09:00, normalEnd=17:30, minRest=11,
\* maxOvertime=4, no combine, no full-day override
C9_Input ==
    /\ args.startStr = Str5("1", "8", "3", "0")
    /\ args.lengthH = 4 * 128
    /\ args.combineH = 0 - 128
    /\ args.fullH = 0
    /\ args.normalStartStr = Str5("0", "9", "0", "0")
    /\ args.normalEndStr = Str5("1", "7", "3", "0")
    /\ args.minRestH = 11 * 128
    /\ args.maxOvertimeH = 4 * 128

\* C9 as stated: scenario A reports included 4h00m, overtime 0h00m and work
\* hours 14:00 -> 18:30.
C9_Original ==
    (Done /\ C9_Input) =>
        /\ res.err = "nil"
        /\ res.result.FullDay = <<"8", "h", "3", "0", "m">>
        /\ res.result.Scenarios[1].ReleaseIncluded = <<"4", "h", "0", "0", "m">>
        /\ res.result.Scenarios[1].Overtime = <<"0", "h", "0", "0", "m">>
        /\ res.result.Scenarios[1].WorkHours
              = Str5("1", "4", "0", "0") \o <<" ", "-", ">", " ">>
                    \o Str5("1", "8", "3", "0")

\* C9 (amended): for these inputs compute succeeds with full day 8h30m and
\* scenario A reports included 4h00m, overtime 0h00m and work hours
\* 14:00 -> 22:30.
C9_Example ==
    (Done /\ C9_Input) =>
        /\ res.err = "nil"
        /\ res.result.FullDay = <<"8", "h", "3", "0", "m">>
        /\ res.result.Scenarios[1].ReleaseIncluded = <<"4", "h", "0", "0", "m">>
        /\ res.result.Scenarios[1].Overtime = <<"0", "h", "0", "0", "m">>
        /\ res.result.Scenarios[1].WorkHours
              = Str5("1", "4", "0", "0") \o <<" ", "-", ">", " ">>
                    \o Str5("2", "2", "3", "0")

\* compute has returned for the inputs of the example
C9_Witness == Done /\ C9_Input /\ Len(res.result.Scenarios) = 2

\* C10: for every min in 0..1439, fmtClock(min) is a plain HH:MM string
\* without a day-offset suffix and parseHHMMToMin of it succeeds with min.
C10_RoundTrip ==
    (pc = "parsed" /\ clk >= 0 /\ clk <= 1439) =>
        /\ Len(clkStr) = 5
        /\ clkStr[3] = ":"
        /\ \A i \in {1, 2, 4, 5} : IsDigit(clkStr[i])
        /\ clkParsed.ok
        /\ clkParsed.val = clk

\* the last minute of the day has been formatted as 23:59 and parsed back
C10_Witness ==
    /\ pc = "parsed"
    /\ clk = 1439
    /\ clkStr = Str5("2", "3", "5", "9")
    /\ clkParsed = [ok |-> TRUE, val |-> 1439]

\* the query string of the redirect names this parameter
InURL(key) == \E i \in 1..Len(res.Location) : res.Location[i] = key

\* C11 as stated: when /calc redirects, the query string contains only
\* parameters whose submitted value differs from the web default; a
\* parameter equal to its default, start and length included, is absent.
C11_Claim ==
    (pc = "responded" /\ res.status = 302) =>
        /\ TrimSpace(args.start) = webDefaultStart => ~InURL("start")
        /\ TrimSpace(args.length) = webDefaultLength => ~InURL("length")
        /\ TrimSpace(args.normal_start) = webDefaultNormalStart => ~InURL("normal_start")
        /\ TrimSpace(args.normal_end) = webDefaultNormalEnd => ~InURL("normal_end")
        /\ TrimSpace(args.min_rest) = webDefaultMinRest => ~InURL("min_rest")
        /\ TrimSpace(args.max_overtime) = webDefaultMaxOvertime => ~InURL("max_overtime")

\* the smaller of two integers, for stating expected values
Least(a, b) == IF a <= b THEN a ELSE b

\* start=20:00, length=5, combine=2, normal day 09:00-17:00, cap 4h
C12_Input ==
    /\ args.startStr = Str5("2", "0", "0", "0")
    /\ args.lengthH = 5 * 128
    /\ args.combineH = 2 * 128
    /\ args.fullH = 0
    /\ args.normalStartStr = Str5("0", "9", "0", "0")
    /\ args.normalEndStr = Str5("1", "7", "0", "0")
    /\ args.maxOvertimeH = 4 * 128

C13_FirstError ==
    IF ~parseHHMMToMin(args.startStr).ok THEN "invalid time, expected HH:MM"
    ELSE IF args.lengthH <= 0 THEN "length must be > 0"
    ELSE IF ~parseHHMMToMin(args.normalStartStr).ok THEN "invalid --normal-start"
    ELSE IF ~parseHHMMToMin(args.normalEndStr).ok THEN "invalid --normal-end"
    ELSE IF parseHHMMToMin(args.normalEndStr).val
               <= parseHHMMToMin(args.normalStartStr).val
         THEN "normal day must be within same day and end after start"
    ELSE IF hoursToMin(args.minRestH) <= 0 THEN "min rest must be > 0"
    ELSE IF hoursToMin(args.maxOvertimeH) < 0 THEN "max overtime must be >= 0"
    ELSE "nil"

\* C13: compute returns exactly one of a result and an error, a result
\* always carries its full scenario list (A, B and, when combine >= 0, C),
\* and the error is the one of the first failing check in the fixed order.
C13_ErrorOrder ==
    Done => /\ res.err = C13_FirstError
            /\ (res.err = "nil") <=> (res.result # NULL)
            /\ (res.result # NULL) =>
                  Len(res.result.Scenarios) = (IF args.combineH >= 0 THEN 3 ELSE 2)

\* the length, the normal start and the minimum rest are all invalid and
\* the error returned is the one for the length
C13_Witness ==
    /\ Done
    /\ parseHHMMToMin(args.startStr).ok
    /\ args.lengthH <= 0
    /\ ~parseHHMMToMin(args.normalStartStr).ok
    /\ hoursToMin(args.minRestH) <= 0
    /\ res.err = "length must be > 0"
    /\ res.result = NULL

\* C14: for every absolute minute (negative, in-day or >= 1440) fmtClock
\* renders an hour h in 0..23, a minute m in 0..59 and the day offset d =
\* floor(min/1440) with d*1440 + h*60 + m = min; mod(min, 1440) is in
\* 0..1439; the day-offset suffix is present exactly when d # 0.
C14_FloorClock ==
    (pc \in {"parse", "parsed"}) =>
        /\ Len(clkStr) >= 5
        /\ \A i \in {1, 2, 4, 5} : IsDigit(clkStr[i])
        /\ clkStr[3] = ":"
        /\ (Len(clkStr) > 5) <=> (clk \div 1440 # 0)
        /\ (Len(clkStr) > 5) =>
              /\ Len(clkStr) >= 11
              /\ SubSeq(clkStr, 6, 8) = <<" ", "(", "+">>
              /\ SubSeq(clkStr, Len(clkStr) - 1, Len(clkStr)) = <<"d", ")">>
              /\ Atoi(SubSeq(clkStr, 9, Len(clkStr) - 2)).ok
        /\ LET h == DigitsVal(SubSeq(clkStr, 1, 2))
               m == DigitsVal(SubSeq(clkStr, 4, 5))
               d == IF Len(clkStr) = 5 THEN 0
                    ELSE Atoi(SubSeq(clkStr, 9, Len(clkStr) - 2)).val
           IN  /\ h \in 0..23
               /\ m \in 0..59
               /\ d = clk \div 1440
               /\ d * 1440 + h * 60 + m = clk
        /\ mod(clk, 1440) \in 0..1439
        /\ mod(clk, 1440) = clk % 1440

\* the minute before midnight of day 0 is rendered as 23:59 of day -1
C14_Witness ==
    /\ pc = "parse"
    /\ clk = 0 - 1
    /\ clkStr = Str5("2", "3", "5", "9") \o <<" ", "(", "+", "-", "1", "d", ")">>

\* the result of the same call with another maximum overtime
C15_Other(mo) ==
    compute(args.startStr, args.lengthH, args.combineH, args.fullH,
            args.normalStartStr, args.normalEndStr, args.minRestH, mo)

C16_Original ==
    Ok => \A i \in 1..Len(res.locals.sc) :
            /\ res.locals.sc[i].workStart <= res.locals.rsMin
            /\ res.locals.rsMin <= res.locals.sc[i].workEnd
            /\ res.locals.reEndAbs - res.locals.sc[i].workStart
                  = res.locals.fullDayMin + res.locals.sc[i].ot

\* C16 (amended): in scenarios A and C always, and in scenario B whenever
\* releaseLength - maxOvertime <= fullDay, workStart <= releaseStart <=
\* workEnd; in every scenario releaseStart <= workEnd and the total-work
\* range [workStart, releaseEnd] spans exactly fullDay + overtime minutes.
C16_WorkBracketsRelease ==
    Ok => LET rs   == parseHHMMToMin(args.startStr).val
              rel  == hoursToMin(args.lengthH)
              mot  == hoursToMin(args.maxOvertimeH)
              full == res.locals.fullDayMin
          IN  \A i \in 1..Len(res.locals.sc) :
                /\ (i # 2 \/ rel - mot <= full) => res.locals.sc[i].workStart <= rs
                /\ rs <= res.locals.sc[i].workEnd
                /\ (rs + rel) - res.locals.sc[i].workStart
                      = full + res.locals.sc[i].ot
                /\ res.result.Scenarios[i].TotalWork
                      = fmtRange(res.locals.sc[i].workStart, rs + rel)

\* scenario B was shifted by the cap and still starts before the release
C16_Witness ==
    /\ Ok
    /\ Len(res.locals.sc) = 3
    /\ res.locals.releaseLenMin > res.locals.maxOvertimeMin
    /\ res.locals.sc[2].workStart < res.locals.rsMin
    /\ res.locals.rsMin < res.locals.sc[2].workEnd
    /\ res.locals.sc[2].workStart > res.locals.rsMin - res.locals.fullDayMin

====
